---- MODULE Spec2Model ----
(***************************************************************************)
(* Model of cookbook/slackbot.py: the Slack webhook handle_message, the    *)
(* detached generate_ai_response runs it schedules, the module-level       *)
(* TTLCache CACHE of per-thread histories, the outbound chat.postMessage   *)
(* call, and the tool SlackThreadToDiscoursePost the engine may call.      *)
(*                                                                         *)
(* Strings that the code inspects character by character (the message      *)
(* text, user ids) are sequences of one-character strings; strings the     *)
(* code only compares or passes on (type, challenge, channel, ts,          *)
(* thread_ts) are TLA+ strings.  A dict is a record; a key the payload     *)
(* does not carry is a field the record does not have.                     *)
(***************************************************************************)
EXTENDS Integers, Sequences, FiniteSets, TLC

VARIABLES
    cache,      \* CACHE: entries <<key, value, expires>> in least-recently-used order
    now,        \* the cache timer (time.monotonic), in ticks
    tasks,      \* the runs of generate_ai_response created by asyncio.create_task
    lastPut,    \* per key: which run last assigned CACHE[key] and when, if still held
    lastReq,    \* payload of the latest call of handle_message
    lastResp,   \* what that call returned or raised
    archive     \* the calls of SlackThreadToDiscoursePost.run the engine has made

vars == <<cache, now, tasks, lastPut, lastReq, lastResp, archive>>

-----------------------------------------------------------------------------
(* Bounds of the model *)

MaxTasks == 1       \* scheduled runs in Spec (every kind of payload)
MaxThreadTasks == 2 \* scheduled runs in SpecThreads (addressed messages only)
MaxTime == 1        \* ticks of the cache timer in Spec and SpecThreads
MaxCapacityTasks == 3 \* scheduled runs in SpecCapacity (three threads)
MaxExpiryTasks == 3 \* scheduled runs in SpecExpiry (one thread)
MaxExpiryTime == 4  \* ticks of the cache timer in SpecExpiry
MaxArchiveTasks == 2 \* scheduled runs in SpecArchive
MaxToolRuns == 1    \* calls of the tool in SpecArchive

(* CACHE = TTLCache(maxsize=1000, ttl=86400), scaled; a ttl of three ticks *)
(* leaves room for a rewrite and a read between two expiry times          *)
MAXSIZE == 2
TTL == 3

-----------------------------------------------------------------------------
(* dict.get(key, default) *)

Get(d, k, default) == IF k \in DOMAIN d THEN d[k] ELSE default

-----------------------------------------------------------------------------
(* SLACK_MENTION_REGEX = r"<@(\w+)>" over sequences of characters *)

WordChars == {"B", "U", "h", "i", "_", "7"}

IsWord(c) == c \in WordChars

IsSpace(c) == c \in {" ", "\n", "\t"}

\* Index of the ">" closing a mention token that starts at s[i], or 0.
\* \w+ is greedy and ">" is no word character, so the id is the maximal
\* run of word characters after "<@" and must be followed by ">".
RECURSIVE WordRunEnd(_, _)
WordRunEnd(s, j) ==
    IF j <= Len(s) /\ IsWord(s[j]) THEN WordRunEnd(s, j + 1) ELSE j

MatchAt(s, i) ==
    IF i + 3 <= Len(s) /\ s[i] = "<" /\ s[i + 1] = "@" /\ IsWord(s[i + 2])
    THEN LET j == WordRunEnd(s, i + 2)
         IN  IF j <= Len(s) /\ s[j] = ">" THEN j ELSE 0
    ELSE 0

\* (mutant) the rightmost match instead of the leftmost
SearchLast(s) ==
    LET starts == {i \in 1..Len(s) : MatchAt(s, i) # 0}
    IN  IF starts = {} THEN <<>>
        ELSE LET i == CHOOSE a \in starts : \A b \in starts : a >= b
             IN  <<i, MatchAt(s, i)>>

\* re.search: the leftmost match, as <<start, end>>, or <<>> for None
Search(s) ==
    LET starts == {i \in 1..Len(s) : MatchAt(s, i) # 0}
    IN  IF starts = {} THEN <<>>
        ELSE LET i == CHOOSE a \in starts : \A b \in starts : a <= b
             IN  <<i, MatchAt(s, i)>>

\* match.group(1)
Group1(s, m) == SubSeq(s, m[1] + 2, m[2] - 1)

\* (mutant) re.sub with count=1: only the leftmost match is dropped
SubFirst(s) ==
    IF Search(s) = <<>> THEN s
    ELSE SubSeq(s, 1, Search(s)[1] - 1) \o SubSeq(s, Search(s)[2] + 1, Len(s))

\* re.sub(SLACK_MENTION_REGEX, "", s): one left-to-right pass that drops
\* the non-overlapping matches
RECURSIVE SubFrom(_, _)
SubFrom(s, i) ==
    IF i > Len(s) THEN <<>>
    ELSE IF MatchAt(s, i) # 0 THEN SubFrom(s, MatchAt(s, i) + 1)
    ELSE <<s[i]>> \o SubFrom(s, i + 1)

Sub(s) == SubFrom(s, 1)

\* str.strip()
RECURSIVE LStrip(_)
LStrip(s) == IF s # <<>> /\ IsSpace(Head(s)) THEN LStrip(Tail(s)) ELSE s

RECURSIVE RStrip(_)
RStrip(s) ==
    IF s # <<>> /\ IsSpace(s[Len(s)]) THEN RStrip(SubSeq(s, 1, Len(s) - 1)) ELSE s

Strip(s) == RStrip(LStrip(s))

-----------------------------------------------------------------------------
(* cachetools.TTLCache, as CACHE uses it: entries [key, value, expires]   *)
(* kept in the order of the cache's OrderedDict of links (front = least   *)
(* recently used)                                                          *)

Keys(c) == {c[i].key : i \in 1..Len(c)}

IndexOf(c, k) == CHOOSE i \in 1..Len(c) : c[i].key = k

Without(c, k) == SelectSeq(c, LAMBDA e : e.key # k)

\* TTLCache.expire(time): drop every entry with not (time < expires)
Expire(c, t) == SelectSeq(c, LAMBDA e : t < e.expires)

\* TTLCache.__contains__: the key has a link and the link has not expired
Contains(c, k, t) == k \in Keys(c) /\ t < c[IndexOf(c, k)].expires

\* (mutant) the stored history is never found: every read starts afresh
CacheGetDefault(c, k, t, default) == default

\* Cache.get(key, default): the value when `key in self`, else the default
CacheGet(c, k, t, default) ==
    IF Contains(c, k, t) THEN c[IndexOf(c, k)].value ELSE default

\* (mutant) a hit restarts the entry's ttl (sliding expiration)
CacheAfterGetSliding(c, k, t) ==
    IF Contains(c, k, t)
    THEN Append(Without(c, k), [c[IndexOf(c, k)] EXCEPT !.expires = t + TTL])
    ELSE c

\* the cache after Cache.get: a hit goes through __getitem__, whose
\* __getlink moves the key to the recently-used end; a miss changes nothing
CacheAfterGet(c, k, t) ==
    IF Contains(c, k, t) THEN Append(Without(c, k), c[IndexOf(c, k)]) ELSE c

\* (mutant) nothing is evicted to make room
EvictNothing(c, k) == c

\* Cache.__setitem__'s `while currsize + size > maxsize: popitem()` for a
\* new key: the least recently used entries go
EvictFor(c, k) ==
    IF k \in Keys(c) \/ Len(c) + 1 <= MAXSIZE THEN c
    ELSE SubSeq(c, Len(c) + 1 - MAXSIZE + 1, Len(c))

\* (mutant) replacing a live entry keeps the expiry time it had
CacheSetKeepExpiry(c, k, v, t) ==
    LET kept == EvictFor(Expire(c, t), k)
    IN  Append(Without(kept, k),
               [key |-> k, value |-> v,
                expires |-> IF k \in Keys(kept) THEN kept[IndexOf(kept, k)].expires
                            ELSE t + TTL])

\* TTLCache.__setitem__: expire, make room, store, restart the key's ttl
CacheSet(c, k, v, t) ==
    LET kept == EvictFor(Expire(c, t), k)
    IN  Append(Without(kept, k), [key |-> k, value |-> v, expires |-> t + TTL])

-----------------------------------------------------------------------------
(* Payloads delivered to the webhook *)

T_hello == <<"<", "@", "B", ">", " ", "h", "i">>
T_plain == <<"h", "i">>
T_other == <<"<", "@", "U", ">", " ", "h", "i">>
T_otherFirst == <<"<", "@", "U", ">", " ", "<", "@", "B", ">", " ", "h", "i">>
T_botFirst == <<" ", "<", "@", "B", ">", " ", "h", "i", " ", "<", "@", "U", ">">>
T_nested == <<"<", "@", "B", ">", " ", "<", "@", "<", "@", "U", ">", "B", ">">>

BOT == <<"B">>

\* event objects: thread_ts absent, empty, or the ts of the thread's root
ThreadEvents ==
    {[text |-> T_hello, channel |-> "C1", ts |-> "1.0"],
     [text |-> T_hello, channel |-> "C1", ts |-> "1.0", thread_ts |-> ""],
     [text |-> T_hello, channel |-> "C1", ts |-> "2.0", thread_ts |-> "1.0"],
     [text |-> T_hello, channel |-> "C2", ts |-> "1.0", thread_ts |-> "2.0"]}

TextEvents ==
    {[text |-> x, channel |-> "C1", ts |-> "2.0", thread_ts |-> "1.0"] :
        x \in {T_plain, T_other, T_otherFirst, T_botFirst, T_nested}}

\* addressed messages: two top-level messages and a reply in the thread of
\* the first one
ThreadPayloads ==
    {[type |-> "event_callback", event |-> e, authorizations |-> <<[user_id |-> BOT]>>] :
        e \in {[text |-> T_hello, channel |-> "C1", ts |-> "1.0", thread_ts |-> ""],
               [text |-> T_hello, channel |-> "C1", ts |-> "2.0", thread_ts |-> ""],
               [text |-> T_hello, channel |-> "C2", ts |-> "2.0", thread_ts |-> "1.0"]}}

Callbacks ==
    {[type |-> "event_callback", event |-> e, authorizations |-> <<[user_id |-> BOT]>>] :
        e \in ThreadEvents \cup TextEvents}
    \cup
    {[type |-> "event_callback",
      event |-> [text |-> T_hello, channel |-> "C1", ts |-> "1.0"]],
     [type |-> "event_callback",
      event |-> [text |-> T_hello, channel |-> "C1", ts |-> "1.0"],
      authorizations |-> <<>>],
     [type |-> "event_callback",
      event |-> [text |-> T_plain, channel |-> "C1", ts |-> "1.0"],
      authorizations |-> <<>>]}

Handshakes ==
    {[type |-> "url_verification", challenge |-> "abc"],
     [type |-> "url_verification", challenge |-> ""],
     [type |-> "url_verification"]}

Invalid ==
    {[type |-> "message", challenge |-> "abc"],
     [challenge |-> "abc"]}

Payloads == Callbacks \cup Handshakes \cup Invalid

CacheKeys == {"", "1.0", "2.0"}

-----------------------------------------------------------------------------
(* generate_ai_response, lines 75-114 *)

EmptyDict == <<>>

\* History(), and a History as the sequence of its messages
EmptyHistory == <<>>

Event(payload) == Get(payload, "event", EmptyDict)

Text(payload) == Get(Event(payload), "text", <<>>)

\* payload.get("authorizations", [{}])
Authorizations(payload) == Get(payload, "authorizations", <<EmptyDict>>)

\* ...[0].get("user_id", ""), defined when the list has a first element
BotUserId(payload) == Get(Authorizations(payload)[1], "user_id", <<>>)

\* the key of CACHE.get(thread_ts, ...) and CACHE[thread_ts] = ...
SessionKey(event) == Get(event, "thread_ts", "")

\* (mutant) the reply is anchored at the message itself
AnchorAtTs(event) == Get(event, "ts", "")

\* thread_ts=thread_ts or ts
ThreadAnchor(event) ==
    IF Get(event, "thread_ts", "") # "" THEN Get(event, "thread_ts", "")
    ELSE Get(event, "ts", "")

\* re.sub(SLACK_MENTION_REGEX, "", message).strip()
Prompt(message) == Strip(Sub(message))

\* (mutant) the addressing check is missing: any mention is answered
TriageAnyMention(payload) ==
    IF Authorizations(payload) = <<>> THEN "index_error"
    ELSE IF Search(Text(payload)) = <<>> THEN "no_mention"
    ELSE "run"

\* How lines 76-90 leave: [0] of an empty list raises IndexError; no match
\* falls off the end of the function; another user's id returns early
Triage(payload) ==
    IF Authorizations(payload) = <<>> THEN "index_error"
    ELSE IF Search(Text(payload)) = <<>> THEN "no_mention"
    ELSE IF Group1(Text(payload), Search(Text(payload))) # BotUserId(payload)
         THEN "skipped"
    ELSE "run"

\* Bot.run(input_text): the engine appends the user's message and its reply
\* to the history it was given; turn tags the two messages of one run
UserMessage(text, turn) == [role |-> "user", content |-> text, turn |-> turn]

AiMessage(turn) == [role |-> "ai", content |-> <<"r", turn>>, turn |-> turn]

BotHistory(history, text, turn) ==
    history \o <<UserMessage(text, turn), AiMessage(turn)>>

\* the task object asyncio.create_task returns for generate_ai_response(payload)
NewTask(payload, ack) ==
    [payload |-> payload,
     ack     |-> ack,          \* what handle_message returned when it made the task
     pc      |-> "scheduled",  \* scheduled, engine, post, posting, done
     outcome |-> "pending",
     message |-> <<>>,         \* the prompt, once line 90 has run
     history |-> EmptyHistory, \* bot.history
     runs    |-> <<>>,         \* engine invocations: [input_text, history]
     posts   |-> <<>>]         \* calls of _post_message: [message, channel, thread_ts]

Finish(task, outcome) == [task EXCEPT !.pc = "done", !.outcome = outcome]

\* the cache after lines 91-103 (the read of the thread's history)
CacheAfterStart(c, k, t) == CacheAfterGet(c, k, t)

\* (mutant) the run's two new messages are added to whatever the store
\* holds for the key when the reply arrives
CacheMerged(c, k, h, t) ==
    CacheSet(c, k, CacheGet(c, k, t, <<>>) \o SubSeq(h, Len(h) - 1, Len(h)), t)

\* (mutant) the history is not stored when the reply arrives
CacheNotStored(c, k, h, t) == c

\* the cache after line 107, CACHE[thread_ts] = bot.history
CacheAfterRun(c, k, h, t) == CacheSet(c, k, h, t)

\* (mutant) the history is stored whether or not bot.run succeeded
CacheStoredAnyway(c, k, h, t) == CacheSet(c, k, h, t)

\* the cache when bot.run raised
CacheAfterFailedRun(c, k, h, t) == c

\* lines 76-105 up to the await of bot.run
Start(t) ==
    LET task == tasks[t]
        payload == task.payload
        k == SessionKey(Event(payload))
        history == CacheGet(cache, k, now, EmptyHistory)
        message == Prompt(Text(payload))
    IN  /\ task.pc = "scheduled"
        /\ IF Triage(payload) = "run"
           THEN /\ tasks' = [tasks EXCEPT ![t] =
                        [task EXCEPT !.pc = "engine",
                                     !.message = message,
                                     !.history = history,
                                     !.runs = Append(@, [input_text |-> message,
                                                         history |-> history])]]
                /\ cache' = CacheAfterStart(cache, k, now)
           ELSE /\ tasks' = [tasks EXCEPT ![t] = Finish(task, Triage(payload))]
                /\ cache' = cache
        /\ UNCHANGED <<now, lastPut, lastReq, lastResp, archive>>

\* bot.run awaits the tool calls it makes: it ends after they have ended
ToolsEnded(t) == \A a \in 1..Len(archive) : archive[a].by = t => archive[a].pc = "done"

\* by: the run that assigned last (0: none, or evicted since), at: when,
\* prev: when the live entry that this assignment replaced was assigned (-1: none)
NoPut == [by |-> 0, at |-> 0, prev |-> -1]

\* bot.run returned: line 107 stores bot.history under thread_ts
BotRunOk(t) ==
    LET task == tasks[t]
        k == SessionKey(Event(task.payload))
        h == BotHistory(task.history, task.message, t)
    IN  /\ task.pc = "engine"
        /\ ToolsEnded(t)
        /\ tasks' = [tasks EXCEPT ![t] = [task EXCEPT !.pc = "post", !.history = h]]
        /\ cache' = CacheAfterRun(cache, k, h, now)
        /\ lastPut' = [x \in CacheKeys |->
                          IF x = k
                          THEN [by |-> t, at |-> now,
                                prev |-> IF Contains(cache, k, now) THEN lastPut[k].at
                                         ELSE -1]
                          ELSE IF x \in Keys(Expire(cache, now)) \ Keys(cache')
                               THEN NoPut
                          ELSE lastPut[x]]
        /\ UNCHANGED <<now, lastReq, lastResp, archive>>

\* bot.run raised: the exception ends the task
BotRunFail(t) ==
    LET task == tasks[t]
        k == SessionKey(Event(task.payload))
    IN  /\ task.pc = "engine"
        /\ ToolsEnded(t)
        /\ tasks' = [tasks EXCEPT ![t] = Finish(task, "engine_error")]
        /\ cache' = CacheAfterFailedRun(cache, k, task.history, now)
        /\ UNCHANGED <<now, lastPut, lastReq, lastResp, archive>>

\* lines 108-112 and 26-35: the call of chat.postMessage goes out
PostSend(t) ==
    LET task == tasks[t]
        event == Event(task.payload)
    IN  /\ task.pc = "post"
        /\ tasks' = [tasks EXCEPT ![t] =
                [task EXCEPT !.pc = "posting",
                             !.posts = Append(@,
                                 [message   |-> AiMessage(t).content,
                                  channel   |-> Get(event, "channel", ""),
                                  thread_ts |-> ThreadAnchor(event)])]]
        /\ UNCHANGED <<cache, now, lastPut, lastReq, lastResp, archive>>

\* lines 37-38, 114: the response is a success and ai_message is returned
PostOk(t) ==
    /\ tasks[t].pc = "posting"
    /\ tasks' = [tasks EXCEPT ![t] = Finish(tasks[t], "ok")]
    /\ UNCHANGED <<cache, now, lastPut, lastReq, lastResp, archive>>

\* line 27 or 37 raises (transport error, or raise_for_status on an error status)
PostFail(t) ==
    /\ tasks[t].pc = "posting"
    /\ tasks' = [tasks EXCEPT ![t] = Finish(tasks[t], "post_error")]
    /\ UNCHANGED <<cache, now, lastPut, lastReq, lastResp, archive>>

-----------------------------------------------------------------------------
(* handle_message, lines 117-128 *)

EventType(payload) == Get(payload, "type", "")

\* (mutant) the handshake reads a key the payload does not have
HandleResponseNoEcho(payload) ==
    IF EventType(payload) = "url_verification"
    THEN [status |-> 200, body |-> [challenge |-> ""]]
    ELSE IF EventType(payload) # "event_callback"
    THEN [status |-> 400, detail |-> "Invalid event type"]
    ELSE [status |-> 200, body |-> [status |-> "ok"]]

\* what the call returns, or the HTTPException it raises
HandleResponse(payload) ==
    IF EventType(payload) = "url_verification"
    THEN [status |-> 200, body |-> [challenge |-> Get(payload, "challenge", "")]]
    ELSE IF EventType(payload) # "event_callback"
    THEN [status |-> 400, detail |-> "Invalid event type"]
    ELSE [status |-> 200, body |-> [status |-> "ok"]]

\* (mutant) the run is never scheduled
SchedulesNothing(payload) == FALSE

\* (mutant) every payload that is no handshake is scheduled
SchedulesUnlessHandshake(payload) == EventType(payload) # "url_verification"

\* (mutant) an event that was delivered before is not scheduled again
SchedulesOnce(payload) ==
    /\ EventType(payload) = "event_callback"
    /\ \A t \in 1..Len(tasks) : tasks[t].payload # payload

\* whether the call reaches asyncio.create_task(generate_ai_response(payload))
Schedules(payload) ==
    EventType(payload) # "url_verification" /\ EventType(payload) = "event_callback"

HandleMessage(payload, limit) ==
    /\ Schedules(payload) => Len(tasks) < limit
    /\ lastReq' = payload
    /\ lastResp' = HandleResponse(payload)
    /\ tasks' = IF Schedules(payload)
                THEN Append(tasks, NewTask(payload, HandleResponse(payload)))
                ELSE tasks
    /\ UNCHANGED <<cache, now, lastPut, archive>>

\* the cache timer advances
Tick ==
    /\ now < MaxTime
    /\ now' = now + 1
    /\ UNCHANGED <<cache, tasks, lastPut, lastReq, lastResp, archive>>

\* the cache timer advances between runs: on the scale of the ttl a run
\* takes no time, so a run in flight reads and writes at the same tick
Elapse ==
    /\ now < MaxExpiryTime
    /\ \A t \in 1..Len(tasks) : tasks[t].pc \in {"scheduled", "done"}
    /\ now' = now + 1
    /\ UNCHANGED <<cache, tasks, lastPut, lastReq, lastResp, archive>>

-----------------------------------------------------------------------------
(* SlackThreadToDiscoursePost.run, lines 52-72 *)

\* what conversations.replies may answer: a status and a JSON body
Replies ==
    {[status |-> 200, body |-> [ok |-> TRUE, messages |-> <<[text |-> "a"], [user |-> "U"]>>]],
     [status |-> 200, body |-> [ok |-> FALSE]],
     [status |-> 404, body |-> [ok |-> FALSE]],
     [status |-> 500, body |-> EmptyDict]}

\* (mutant) the status of the response is not looked at
NeverRaises(status) == FALSE

\* response.raise_for_status(), line 65: raises unless the status is a 2xx
RaisesForStatus(status) == status \notin 200..299

\* line 68: the text of every message of the response, "" where it has none
Texts(body) ==
    LET messages == Get(body, "messages", <<>>)
    IN  [n \in 1..Len(messages) |-> Get(messages[n], "text", "")]

\* DiscoursePost.from_slack_thread: the post made from the texts
FromSlackThread(texts) == [texts |-> texts]

\* lines 54-63: the engine, inside bot.run of run t, calls the tool with
\* the arguments it chose; the GET of conversations.replies goes out
ToolRun(t, channel, thread_ts) ==
    /\ tasks[t].pc = "engine"
    /\ Len(archive) < MaxToolRuns
    /\ archive' = Append(archive,
                         [by |-> t, channel |-> channel, thread_ts |-> thread_ts,
                          pc |-> "fetching", status |-> 0, post |-> EmptyDict,
                          published |-> <<>>, outcome |-> "pending"])
    /\ UNCHANGED <<cache, now, tasks, lastPut, lastReq, lastResp>>

\* client.get raised: no response
FetchFail(a) ==
    /\ archive[a].pc = "fetching"
    /\ archive' = [archive EXCEPT ![a].pc = "done", ![a].outcome = "fetch_error"]
    /\ UNCHANGED <<cache, now, tasks, lastPut, lastReq, lastResp>>

\* lines 65-70: the response is there; raise_for_status ends the call on an
\* error status, else the post is made from the texts and publish is called
Fetched(a, reply) ==
    /\ archive[a].pc = "fetching"
    /\ archive' =
          IF RaisesForStatus(reply.status)
          THEN [archive EXCEPT ![a].pc = "done", ![a].status = reply.status,
                               ![a].outcome = "http_error"]
          ELSE [archive EXCEPT ![a].pc = "publishing", ![a].status = reply.status,
                               ![a].post = FromSlackThread(Texts(reply.body)),
                               ![a].published =
                                   Append(@, FromSlackThread(Texts(reply.body)))]
    /\ UNCHANGED <<cache, now, tasks, lastPut, lastReq, lastResp>>

\* line 72: publish returned and the post is handed back to the engine
Published(a) ==
    /\ archive[a].pc = "publishing"
    /\ archive' = [archive EXCEPT ![a].pc = "done", ![a].outcome = "ok"]
    /\ UNCHANGED <<cache, now, tasks, lastPut, lastReq, lastResp>>

\* line 70: publish raised
PublishFail(a) ==
    /\ archive[a].pc = "publishing"
    /\ archive' = [archive EXCEPT ![a].pc = "done", ![a].outcome = "publish_error"]
    /\ UNCHANGED <<cache, now, tasks, lastPut, lastReq, lastResp>>

-----------------------------------------------------------------------------

NoRequest == [type |-> "none"]

Init ==
    /\ cache = <<>>
    /\ now = 0
    /\ tasks = <<>>
    /\ lastPut = [k \in CacheKeys |-> NoPut]
    /\ lastReq = NoRequest
    /\ lastResp = NoRequest
    /\ archive = <<>>

\* every kind of payload, few runs
Next ==
    \/ \E payload \in Payloads : HandleMessage(payload, MaxTasks)
    \/ \E t \in 1..Len(tasks) : Start(t)
    \/ \E t \in 1..Len(tasks) : BotRunOk(t)
    \/ \E t \in 1..Len(tasks) : BotRunFail(t)
    \/ \E t \in 1..Len(tasks) : PostSend(t)
    \/ \E t \in 1..Len(tasks) : PostOk(t)
    \/ \E t \in 1..Len(tasks) : PostFail(t)
    \/ Tick

Spec == Init /\ [][Next]_vars

\* addressed messages only, more runs
NextThreads ==
    \/ \E payload \in ThreadPayloads : HandleMessage(payload, MaxThreadTasks)
    \/ \E t \in 1..Len(tasks) : Start(t)
    \/ \E t \in 1..Len(tasks) : BotRunOk(t)
    \/ \E t \in 1..Len(tasks) : BotRunFail(t)
    \/ \E t \in 1..Len(tasks) : PostSend(t)
    \/ \E t \in 1..Len(tasks) : PostOk(t)
    \/ \E t \in 1..Len(tasks) : PostFail(t)
    \/ Tick

SpecThreads == Init /\ [][NextThreads]_vars

\* replies in one thread, spread over more than a time-to-live; the engine
\* may fail (a read with no write after it), every post succeeds
ExpiryPayloads ==
    {[type |-> "event_callback",
      event |-> [text |-> T_hello, channel |-> "C1", ts |-> "2.0", thread_ts |-> "1.0"],
      authorizations |-> <<[user_id |-> BOT]>>]}

NextExpiry ==
    \/ \E payload \in ExpiryPayloads : HandleMessage(payload, MaxExpiryTasks)
    \/ \E t \in 1..Len(tasks) : Start(t)
    \/ \E t \in 1..Len(tasks) : BotRunOk(t)
    \/ \E t \in 1..Len(tasks) : BotRunFail(t)
    \/ \E t \in 1..Len(tasks) : PostSend(t)
    \/ \E t \in 1..Len(tasks) : PostOk(t)
    \/ Elapse

SpecExpiry == Init /\ [][NextExpiry]_vars

\* addressed replies in three threads, one more than the cache holds, all
\* within one tick of the timer and with engine and post succeeding
CapacityPayloads ==
    {[type |-> "event_callback",
      event |-> [text |-> T_hello, channel |-> "C1", ts |-> "3.0", thread_ts |-> k],
      authorizations |-> <<[user_id |-> BOT]>>] : k \in {"1.0", "2.0", ""}}

NextCapacity ==
    \/ \E payload \in CapacityPayloads : HandleMessage(payload, MaxCapacityTasks)
    \/ \E t \in 1..Len(tasks) : Start(t)
    \/ \E t \in 1..Len(tasks) : BotRunOk(t)
    \/ \E t \in 1..Len(tasks) : PostSend(t)
    \/ \E t \in 1..Len(tasks) : PostOk(t)

SpecCapacity == Init /\ [][NextCapacity]_vars

\* replies in one thread whose engine calls the tool; the engine and the
\* post succeed, the fetch and the publish may fail
ToolChannels == {"C1"}
ToolThreads == {"1.0"}

NextArchive ==
    \/ \E payload \in ExpiryPayloads : HandleMessage(payload, MaxArchiveTasks)
    \/ \E t \in 1..Len(tasks) : Start(t)
    \/ \E t \in 1..Len(tasks) : BotRunOk(t)
    \/ \E t \in 1..Len(tasks) : PostSend(t)
    \/ \E t \in 1..Len(tasks) : PostOk(t)
    \/ \E t \in 1..Len(tasks), channel \in ToolChannels, thread_ts \in ToolThreads :
          ToolRun(t, channel, thread_ts)
    \/ \E a \in 1..Len(archive) : FetchFail(a)
    \/ \E a \in 1..Len(archive), reply \in Replies : Fetched(a, reply)
    \/ \E a \in 1..Len(archive) : Published(a)
    \/ \E a \in 1..Len(archive) : PublishFail(a)

SpecArchive == Init /\ [][NextArchive]_vars

-----------------------------------------------------------------------------
(* Vocabulary of the properties *)

Tasks == 1..Len(tasks)

\* task t takes a step
Steps(t) == t \in Tasks /\ tasks'[t] # tasks[t]

\* a call of handle_message shows as a new request, a new response or a new task
HandleStep == <<lastReq, lastResp>>' # <<lastReq, lastResp>> \/ Len(tasks') # Len(tasks)

OkResponse == [status |-> 200, body |-> [status |-> "ok"]]

\* ThreadKey of an event, as the specification defines it
ThreadKey(event) ==
    IF "thread_ts" \in DOMAIN event /\ event.thread_ts # "" THEN event.thread_ts
    ELSE event.ts

\* the entries of the cache, whatever their recency order
Entries(c) == {c[i] : i \in 1..Len(c)}

\* the first mention token of the text names the responder
Addressed(payload) ==
    /\ Authorizations(payload) # <<>>
    /\ Search(Text(payload)) # <<>>
    /\ "user_id" \in DOMAIN Authorizations(payload)[1]
    /\ Group1(Text(payload), Search(Text(payload))) = Authorizations(payload)[1].user_id

\* the two messages of run i's turn, next to each other in history h
HasExchange(h, i) ==
    \E n \in 1..(Len(h) - 1) :
        /\ h[n] = [role |-> "user", content |-> tasks[i].message, turn |-> i]
        /\ h[n + 1].role = "ai" /\ h[n + 1].turn = i

-----------------------------------------------------------------------------
(* C1: when a run for an addressed event stores the history the engine     *)
(* updated, it stores it under ThreadKey (thread_ts if present and         *)
(* non-empty, else ts): right after the store a get(ThreadKey) returns a   *)
(* non-empty history.                                                      *)
C1_StoredUnderThreadKey ==
    [][\A t \in Tasks :
          (tasks[t].pc = "engine" /\ tasks'[t].pc = "post")
              => CacheGet(cache', ThreadKey(Event(tasks[t].payload)), now',
                          EmptyHistory) # EmptyHistory]_vars

(* C2: handle_message on an event_callback payload makes exactly one task, *)
(* which has not started when the call returns {"status": "ok"}, and       *)
(* touches nothing else; the acknowledgment a task's request got is ok and *)
(* stays what it was through every later step of the run, whatever its     *)
(* outcome.                                                                *)
C2_FireAndForget ==
    [][/\ (HandleStep /\ EventType(lastReq') = "event_callback")
            => /\ lastResp' = OkResponse
               /\ Len(tasks') = Len(tasks) + 1
               /\ SubSeq(tasks', 1, Len(tasks)) = tasks
               /\ tasks'[Len(tasks')].payload = lastReq'
               /\ tasks'[Len(tasks')].ack = OkResponse
               /\ tasks'[Len(tasks')].pc = "scheduled"
               /\ tasks'[Len(tasks')].runs = <<>>
               /\ tasks'[Len(tasks')].posts = <<>>
               /\ UNCHANGED <<cache, now, lastPut>>
       /\ \A t \in Tasks :
            /\ tasks[t].ack = OkResponse
            /\ tasks'[t].ack = tasks[t].ack
            /\ Steps(t) => UNCHANGED <<lastReq, lastResp>>]_vars

\* the caller has its ok and the run it scheduled has not started
C2_Witness ==
    /\ lastResp = OkResponse
    /\ \E t \in Tasks : tasks[t].pc = "scheduled" /\ tasks[t].payload = lastReq

(* C3: a run whose engine invocation failed has posted nothing, and no     *)
(* step of a run up to and including the failure of bot.run adds, replaces *)
(* or refreshes an entry of the session store.                             *)
C3_EngineFailureLeavesStore ==
    [][\A t \in Tasks :
          /\ tasks'[t].outcome = "engine_error" => tasks'[t].posts = <<>>
          /\ (Steps(t) /\ (tasks'[t].pc = "engine" \/ tasks'[t].outcome = "engine_error"))
                => Entries(cache') = Entries(cache)]_vars

\* bot.run failed in a thread whose history another run had stored
C3_Witness ==
    \E t \in Tasks :
        /\ tasks[t].outcome = "engine_error"
        /\ tasks[t].runs[1].history # EmptyHistory
        /\ Contains(cache, SessionKey(Event(tasks[t].payload)), now)

(* C4: the step in which the engine's reply arrives stores the updated     *)
(* history under the run's key before any post is attempted, the post is   *)
(* attempted only after that step, and the step in which the post fails    *)
(* leaves the session store as it is.                                      *)
C4_WriteBeforePost ==
    [][\A t \in Tasks :
          /\ (tasks[t].pc = "engine" /\ tasks'[t].pc = "post")
                => /\ tasks'[t].posts = <<>>
                   /\ tasks'[t].history # EmptyHistory
                   /\ CacheGet(cache', SessionKey(Event(tasks[t].payload)), now',
                               EmptyHistory) = tasks'[t].history
          /\ tasks'[t].posts # tasks[t].posts => tasks[t].pc = "post"
          /\ (Steps(t) /\ tasks'[t].outcome = "post_error") => cache' = cache]_vars

\* the post failed and the updated history is still in the store
C4_Witness ==
    \E t \in Tasks :
        /\ tasks[t].outcome = "post_error"
        /\ CacheGet(cache, SessionKey(Event(tasks[t].payload)), now, EmptyHistory)
              = tasks[t].history
        /\ tasks[t].history # EmptyHistory

(* C5: a run for an event whose first mention is not the responder's id    *)
(* (authorizations[0].user_id) has invoked no engine and posted nothing    *)
(* when it is made and after each of its steps, and none of its steps      *)
(* changes the session store.                                              *)
MentionsAnother(payload) ==
    /\ Authorizations(payload) # <<>>
    /\ Search(Text(payload)) # <<>>
    /\ Group1(Text(payload), Search(Text(payload)))
           # Get(Authorizations(payload)[1], "user_id", <<>>)

C5_NotAddressedNoEffect ==
    [][\A t \in 1..Len(tasks') :
          ((t \notin Tasks \/ Steps(t)) /\ MentionsAnother(tasks'[t].payload))
              => /\ tasks'[t].runs = <<>>
                 /\ tasks'[t].posts = <<>>
                 /\ UNCHANGED <<cache, lastPut>>]_vars

\* a run ended at the addressing check
C5_Witness ==
    \E t \in Tasks :
        /\ MentionsAnother(tasks[t].payload)
        /\ tasks[t].outcome = "skipped"

(* C6: a run for an event whose text holds no mention token ends without   *)
(* an error and without effect: no engine invocation, no post.             *)
C6_NoMentionSilent ==
    \A t \in Tasks :
        (Search(Text(tasks[t].payload)) = <<>> /\ tasks[t].pc = "done")
            => /\ tasks[t].outcome = "no_mention"
               /\ tasks[t].runs = <<>>
               /\ tasks[t].posts = <<>>

(* C7: a run posts at most once; a finished run for an addressed event     *)
(* whose engine invocation and post both succeeded has posted exactly      *)
(* once; and every post goes to event.channel, anchored at ThreadKey       *)
(* (thread_ts when non-empty, whatever ts is, else ts).                    *)
C7_OnePostAtThreadKey ==
    \A t \in Tasks :
        LET task == tasks[t]
            event == Event(task.payload)
        IN  /\ Len(task.posts) <= 1
            /\ (Addressed(task.payload) /\ task.pc = "done"
                  /\ task.outcome \notin {"engine_error", "post_error"})
                  => Len(task.posts) = 1 /\ task.outcome = "ok"
            /\ task.outcome = "ok" => Len(task.posts) = 1
            /\ \A n \in 1..Len(task.posts) :
                  /\ task.posts[n].channel = event.channel
                  /\ task.posts[n].thread_ts = ThreadKey(event)

\* a reply in a thread was answered in that thread, not under its own ts
C7_Witness ==
    \E t \in Tasks :
        /\ tasks[t].outcome = "ok"
        /\ Event(tasks[t].payload).ts = "2.0"
        /\ tasks[t].posts = <<[message |-> <<"r", t>>, channel |-> "C1",
                               thread_ts |-> "1.0"]>>

(* C8: when a run for an addressed event starts, and the last assignment   *)
(* to its thread_ts in the session store was made less than the            *)
(* time-to-live ago by a run for the same thread_ts that has completed     *)
(* successfully, with no eviction of that key and no other run's write to  *)
(* it since, then the history the engine is given holds that run's         *)
(* exchange.                                                               *)
C8_SessionContinuity ==
    [][\A i, j \in Tasks :
          LET k == Get(Event(tasks[j].payload), "thread_ts", "")
          IN  (/\ i # j
               /\ tasks[j].pc = "scheduled" /\ tasks'[j].pc = "engine"
               /\ tasks[i].outcome = "ok"
               /\ Get(Event(tasks[i].payload), "thread_ts", "") = k
               /\ lastPut[k].by = i
               /\ now < lastPut[k].at + TTL)
              => /\ Len(tasks'[j].runs) = 1
                 /\ HasExchange(tasks'[j].runs[1].history, i)]_vars

\* the second run of a thread was given the first run's exchange
C8_Witness ==
    \E i, j \in Tasks :
        /\ i # j
        /\ tasks[i].outcome = "ok"
        /\ Event(tasks[i].payload).thread_ts = Event(tasks[j].payload).thread_ts
        /\ tasks[j].runs # <<>>
        /\ HasExchange(tasks[j].runs[1].history, i)

(* C9: a call of handle_message with type "url_verification" returns a     *)
(* body that holds the payload's challenge and nothing else, for every     *)
(* challenge including the empty string, and changes nothing: it makes no  *)
(* task and leaves every run and the session store alone.                  *)
C9_HandshakeEcho ==
    [][(HandleStep /\ EventType(lastReq') = "url_verification")
          => /\ lastResp'.status = 200
             /\ DOMAIN lastResp'.body = {"challenge"}
             /\ "challenge" \in DOMAIN lastReq'
                   => lastResp'.body.challenge = lastReq'.challenge
             /\ UNCHANGED <<tasks, cache, now, lastPut>>]_vars

\* the empty challenge came back, with a run in flight that it left alone
C9_Witness ==
    /\ lastReq = [type |-> "url_verification", challenge |-> ""]
    /\ lastResp = [status |-> 200, body |-> [challenge |-> ""]]
    /\ \E t \in Tasks : tasks[t].pc = "engine"

(* C10: a call of handle_message whose type is neither "url_verification"  *)
(* nor "event_callback" (or is missing) fails with status 400 and changes  *)
(* nothing; no run ever exists for such a payload.                         *)
C10_InvalidTypeRejected ==
    [][/\ (HandleStep /\ EventType(lastReq') \notin {"url_verification", "event_callback"})
            => /\ lastResp'.status = 400
               /\ UNCHANGED <<tasks, cache, now, lastPut>>
       /\ \A t \in 1..Len(tasks') :
            /\ "type" \in DOMAIN tasks'[t].payload
            /\ tasks'[t].payload.type = "event_callback"]_vars

\* a payload without a type was refused
C10_Witness ==
    /\ "type" \notin DOMAIN lastReq
    /\ lastResp = [status |-> 400, detail |-> "Invalid event type"]

-----------------------------------------------------------------------------
(* C11: when a run reads the session store for a key whose last write was  *)
(* more than ttl ago, it gets an empty history, however often the key was  *)
(* read since that write; and no read changes an entry or its expiry time. *)
C11_ExpiredEntryIsMiss ==
    [][\A j \in Tasks :
          LET k == SessionKey(Event(tasks[j].payload))
          IN  (tasks[j].pc = "scheduled" /\ tasks'[j].pc = "engine")
                => /\ Entries(cache') = Entries(cache)
                   /\ (lastPut[k].by # 0 /\ now > lastPut[k].at + TTL)
                        => /\ tasks'[j].history = EmptyHistory
                           /\ tasks'[j].runs[1].history = EmptyHistory]_vars

\* a run in flight was given an empty history more than ttl after the last
\* write of its key, although a run whose engine failed had read the entry
\* in between
C11_Witness ==
    \E j, r \in Tasks :
        LET k == SessionKey(Event(tasks[j].payload))
        IN  /\ tasks[j].pc = "engine"
            /\ tasks[j].history = EmptyHistory
            /\ lastPut[k].by \notin {0, j, r}
            /\ now > lastPut[k].at + TTL
            /\ tasks[r].outcome = "engine_error"
            /\ HasExchange(tasks[r].runs[1].history, lastPut[k].by)

(* C17: every store of a history restarts the ttl of its key, and a run    *)
(* that reads a key less than ttl after the key's last write is given the  *)
(* history of that write, however long ago the entry was first written.    *)
C17_WriteRestartsTtl ==
    [][\A j \in Tasks :
          LET k == SessionKey(Event(tasks[j].payload))
          IN  /\ (tasks[j].pc = "engine" /\ tasks'[j].pc = "post")
                   => \E e \in Entries(cache') :
                         e.key = k /\ e.expires = now + TTL /\ e.value = tasks'[j].history
              /\ (tasks[j].pc = "scheduled" /\ tasks'[j].pc = "engine"
                    /\ lastPut[k].by # 0 /\ now < lastPut[k].at + TTL)
                   => /\ tasks'[j].history = tasks[lastPut[k].by].history
                      /\ HasExchange(tasks'[j].runs[1].history, lastPut[k].by)]_vars

\* a run in flight was given the history of a rewrite made less than ttl
\* ago, more than ttl after the write that the rewrite replaced
C17_Witness ==
    \E j \in Tasks :
        LET k == SessionKey(Event(tasks[j].payload))
        IN  /\ tasks[j].pc = "engine"
            /\ lastPut[k].by \notin {0, j}
            /\ lastPut[k].prev >= 0
            /\ lastPut[k].at < lastPut[k].prev + TTL
            /\ now > lastPut[k].prev + TTL
            /\ now < lastPut[k].at + TTL
            /\ HasExchange(tasks[j].history, lastPut[k].by)

(* C12: the session store never holds more entries than its capacity, and  *)
(* never two for one key; a store of a history leaves its key in the       *)
(* store, and when the key is new and the store is full of live entries,   *)
(* exactly one other entry, the least recently used, goes.                 *)
C12_CapacityBound ==
    [][/\ Len(cache) <= MAXSIZE /\ Len(cache') <= MAXSIZE
       /\ Cardinality(Keys(cache')) = Len(cache')
       /\ \A t \in Tasks :
            LET k == SessionKey(Event(tasks[t].payload))
            IN  (tasks[t].pc = "engine" /\ tasks'[t].pc = "post")
                  => /\ k \in Keys(cache')
                     /\ (k \notin Keys(cache) /\ Len(Expire(cache, now)) = MAXSIZE)
                          => Keys(cache') = (Keys(cache) \ {cache[1].key}) \cup {k}]_vars

\* a run stored its history, and a write for a third key has since put it out
C12_Witness ==
    /\ Len(cache) = MAXSIZE
    /\ \E t \in Tasks :
          /\ tasks[t].pc = "done"
          /\ tasks[t].outcome = "ok"
          /\ SessionKey(Event(tasks[t].payload)) \notin Keys(cache)

(* C13: every entry of the session store is, whole, the history of the one *)
(* run that stored it last: the history that run was given followed by     *)
(* its own exchange, made of complete exchanges (a user message and the    *)
(* reply of the same turn) with no turn twice; never a mixture of the      *)
(* messages of runs that overlapped.                                       *)
CompleteExchanges(h) ==
    /\ Len(h) % 2 = 0
    /\ \A n \in 1..Len(h) :
          /\ h[n].role = (IF n % 2 = 1 THEN "user" ELSE "ai")
          /\ n % 2 = 1 => h[n + 1].turn = h[n].turn
          /\ \A m \in 1..Len(h) : (h[m].turn = h[n].turn) => (m + 1) \div 2 = (n + 1) \div 2

C13_NoMixedHistory ==
    \A n \in 1..Len(cache) :
        LET k == cache[n].key
            w == lastPut[k].by
        IN  /\ w \in Tasks
            /\ SessionKey(Event(tasks[w].payload)) = k
            /\ cache[n].value = tasks[w].history
            /\ cache[n].value =
                  tasks[w].runs[1].history
                     \o <<[role |-> "user", content |-> tasks[w].message, turn |-> w],
                          [role |-> "ai", content |-> <<"r", w>>, turn |-> w]>>
            /\ CompleteExchanges(cache[n].value)

\* two runs read the same key, one has stored its history while the other
\* was waiting for the engine, and the other has stored its own over it
C13_Witness ==
    \E i, j \in Tasks :
        /\ i # j
        /\ SessionKey(Event(tasks[i].payload)) = SessionKey(Event(tasks[j].payload))
        /\ tasks[i].pc \in {"post", "posting"} /\ tasks[j].pc \in {"post", "posting"}
        /\ tasks[i].runs[1].history = tasks[j].runs[1].history
        /\ lastPut[SessionKey(Event(tasks[j].payload))].by = j
        /\ CacheGet(cache, SessionKey(Event(tasks[j].payload)), now, EmptyHistory)
              = tasks[j].history

(* C14: the prompt handed to the engine is the event text with every       *)
(* occurrence of the mention token removed and the white space at both    *)
(* ends trimmed, and it contains no mention token.                         *)

\* the positions of s that lie in no occurrence of the mention token
KeptPositions(s) ==
    SelectSeq([p \in 1..Len(s) |-> p],
              LAMBDA p : ~ \E i \in 1..p : MatchAt(s, i) # 0 /\ p <= MatchAt(s, i))

\* s without the characters of its mention tokens
WithoutTokens(s) == [n \in 1..Len(KeptPositions(s)) |-> s[KeptPositions(s)[n]]]

HasToken(s) == \E i \in 1..Len(s) : MatchAt(s, i) # 0

Trimmed(s) == s = <<>> \/ (~ IsSpace(s[1]) /\ ~ IsSpace(s[Len(s)]))

C14_PromptHasNoMention ==
    [][\A t \in Tasks :
          (tasks[t].pc = "scheduled" /\ tasks'[t].pc = "engine") =>
              LET text == Text(tasks[t].payload)
                  prompt == tasks'[t].runs[1].input_text
              IN  /\ prompt = Strip(WithoutTokens(text))
                  /\ Trimmed(prompt)
                  /\ ~ HasToken(prompt)]_vars

(* C14, amended: the prompt is the event text with every occurrence of the *)
(* mention token removed and the white space at both ends trimmed; a       *)
(* mention token in the prompt is never one of the text's: its characters  *)
(* stood on both sides of a token that was removed.                        *)
C14_PromptIsTextWithoutTokens ==
    [][\A t \in Tasks :
          (tasks[t].pc = "scheduled" /\ tasks'[t].pc = "engine") =>
              LET text == Text(tasks[t].payload)
                  prompt == tasks'[t].runs[1].input_text
                  kept == KeptPositions(text)
                  lead == Len(WithoutTokens(text)) - Len(LStrip(WithoutTokens(text)))
              IN  /\ prompt = Strip(WithoutTokens(text))
                  /\ Trimmed(prompt)
                  /\ \A i \in 1..Len(prompt) :
                        MatchAt(prompt, i) # 0 =>
                            kept[lead + MatchAt(prompt, i)] - kept[lead + i]
                                > MatchAt(prompt, i) - i]_vars

\* a run whose text holds two tokens and white space at both ends of what
\* is left
C14_Witness ==
    \E t \in Tasks :
        /\ tasks[t].runs # <<>>
        /\ Text(tasks[t].payload) = T_botFirst
        /\ tasks[t].runs[1].input_text = <<"h", "i">>

(* C15: sessions are isolated by ThreadKey: the history handed to the       *)
(* engine for an event holds no exchange of an event with another          *)
(* ThreadKey; two top-level messages with different ts do not see each     *)
(* other's exchanges.                                                      *)
C15_SessionsIsolated ==
    \A i, j \in Tasks :
        (tasks[j].runs # <<>> /\ HasExchange(tasks[j].runs[1].history, i))
            => ThreadKey(Event(tasks[j].payload)) = ThreadKey(Event(tasks[i].payload))

(* C16: when two runs for the same key both read a miss (the store had no   *)
(* entry for the key and neither had written yet) and both have stored,    *)
(* the store holds the history written last, which is that run's exchange  *)
(* alone: the other run's turn is not in it; and each of the two posts its *)
(* own reply.                                                              *)
Stored(t) == tasks[t].pc \in {"post", "posting", "done"} /\ tasks[t].history # EmptyHistory

OwnReplyPosted(t) ==
    /\ Len(tasks[t].posts) = 1
    /\ tasks[t].posts[1].message = <<"r", t>>

C16_LostUpdate ==
    \A i, j \in Tasks :
        LET k == SessionKey(Event(tasks[j].payload))
        IN  ( /\ i # j
              /\ SessionKey(Event(tasks[i].payload)) = k
              /\ Stored(i) /\ Stored(j)
              /\ tasks[i].runs[1].history = EmptyHistory
              /\ tasks[j].runs[1].history = EmptyHistory
              /\ lastPut[k].by = j )
            => /\ Contains(cache, k, now)
               /\ CacheGet(cache, k, now, EmptyHistory)
                     = <<[role |-> "user", content |-> tasks[j].message, turn |-> j],
                         [role |-> "ai", content |-> <<"r", j>>, turn |-> j]>>
               /\ ~ HasExchange(CacheGet(cache, k, now, EmptyHistory), i)
               /\ \A t \in {i, j} :
                     (tasks[t].pc = "posting" \/ tasks[t].outcome = "ok")
                         => OwnReplyPosted(t)

\* both runs read a miss, both stored, both posted, and only the exchange of
\* the one that stored last is in the store
C16_Witness ==
    \E i, j \in Tasks :
        LET k == SessionKey(Event(tasks[j].payload))
        IN  /\ i # j
            /\ SessionKey(Event(tasks[i].payload)) = k
            /\ tasks[i].runs # <<>> /\ tasks[j].runs # <<>>
            /\ tasks[i].runs[1].history = EmptyHistory
            /\ tasks[j].runs[1].history = EmptyHistory
            /\ tasks[i].outcome = "ok" /\ tasks[j].outcome = "ok"
            /\ OwnReplyPosted(i) /\ OwnReplyPosted(j)
            /\ lastPut[k].by = j
            /\ Len(CacheGet(cache, k, now, EmptyHistory)) = 2
            /\ ~ HasExchange(CacheGet(cache, k, now, EmptyHistory), i)

(* C18: intake does not deduplicate: each delivery of an addressed callback *)
(* that was delivered before is acknowledged with ok and schedules one     *)
(* more run, leaving the earlier runs and the store as they were; a run    *)
(* for an event delivered more than once invokes the engine once, ends     *)
(* with no error of its own making, stores the history it read followed    *)
(* by its own exchange, and when engine and post succeed has posted its    *)
(* own reply; the store keeps one entry per key, each made of complete     *)
(* exchanges.                                                              *)
DeliveredAgain(t) == \E u \in Tasks : u # t /\ tasks[u].payload = tasks[t].payload

C18_NoDeduplication ==
    [][/\ (HandleStep /\ Addressed(lastReq') /\ \E u \in Tasks : tasks[u].payload = lastReq')
            => /\ lastResp' = OkResponse
               /\ Len(tasks') = Len(tasks) + 1
               /\ SubSeq(tasks', 1, Len(tasks)) = tasks
               /\ tasks'[Len(tasks')].payload = lastReq'
               /\ tasks'[Len(tasks')].pc = "scheduled"
               /\ cache' = cache
       /\ \A t \in Tasks :
            DeliveredAgain(t) =>
               /\ Len(tasks'[t].runs) <= 1
               /\ tasks'[t].outcome \in {"pending", "ok", "engine_error", "post_error"}
               /\ (tasks[t].pc = "scheduled" /\ Steps(t)) => tasks'[t].pc = "engine"
               /\ (tasks[t].pc = "engine" /\ tasks'[t].pc = "post")
                     => CacheGet(cache', SessionKey(Event(tasks[t].payload)), now', <<>>)
                           = tasks[t].runs[1].history
                               \o <<[role |-> "user", content |-> tasks[t].message, turn |-> t],
                                    [role |-> "ai", content |-> <<"r", t>>, turn |-> t]>>
               /\ tasks'[t].outcome = "ok"
                     => /\ Len(tasks'[t].posts) = 1
                        /\ tasks'[t].posts[1].message = <<"r", t>>
       /\ Cardinality(Keys(cache')) = Len(cache')
       /\ \A n \in 1..Len(cache') : CompleteExchanges(cache'[n].value)]_vars

\* the same event was delivered twice, both runs ended well with their own
\* replies posted, and the store holds both turns
C18_Witness ==
    \E i, j \in Tasks :
        /\ i # j
        /\ tasks[i].payload = tasks[j].payload
        /\ tasks[i].outcome = "ok" /\ tasks[j].outcome = "ok"
        /\ OwnReplyPosted(i) /\ OwnReplyPosted(j)
        /\ HasExchange(CacheGet(cache, SessionKey(Event(tasks[j].payload)), now, <<>>), i)
        /\ HasExchange(CacheGet(cache, SessionKey(Event(tasks[j].payload)), now, <<>>), j)

(* C20: the first mention token of the text alone decides: a message whose  *)
(* first mention is another id gets no engine invocation, no post and no   *)
(* store entry of its own, even when a later mention is the responder's    *)
(* id; a message whose first mention is the responder's id has its engine  *)
(* invocation whatever mentions follow, and its reply when engine and post *)
(* succeed.                                                                *)

\* the ids of the text's mention tokens, in the order they stand in it
MentionIds(s) ==
    LET starts == SelectSeq([p \in 1..Len(s) |-> p], LAMBDA p : MatchAt(s, p) # 0)
    IN  [n \in 1..Len(starts) |-> SubSeq(s, starts[n] + 2, MatchAt(s, starts[n]) - 1)]

C20_FirstMentionDecides ==
    \A t \in Tasks :
        LET payload == tasks[t].payload
            ids == MentionIds(Text(payload))
        IN  (Authorizations(payload) # <<>> /\ ids # <<>>) =>
                /\ (ids[1] # BotUserId(payload))
                      => /\ tasks[t].runs = <<>>
                         /\ tasks[t].posts = <<>>
                         /\ tasks[t].outcome \in {"pending", "skipped"}
                         /\ lastPut[SessionKey(Event(payload))].by # t
                /\ (ids[1] = BotUserId(payload))
                      => /\ tasks[t].pc # "scheduled" => Len(tasks[t].runs) = 1
                         /\ tasks[t].outcome \in {"pending", "ok", "engine_error", "post_error"}
                         /\ tasks[t].outcome = "ok" => OwnReplyPosted(t)

\* a message that mentions another id first and the responder second has
\* been left unanswered
C20_Witness ==
    \E t \in Tasks :
        LET ids == MentionIds(Text(tasks[t].payload))
        IN  /\ Len(ids) = 2
            /\ ids[1] # BotUserId(tasks[t].payload)
            /\ ids[2] = BotUserId(tasks[t].payload)
            /\ tasks[t].pc = "done"
            /\ tasks[t].outcome = "skipped"
            /\ tasks[t].runs = <<>> /\ tasks[t].posts = <<>>

\* a message that mentions the responder first and another id after it has
\* been answered
C20_AnsweredWitness ==
    \E t \in Tasks :
        LET ids == MentionIds(Text(tasks[t].payload))
        IN  /\ Len(ids) = 2
            /\ ids[1] = BotUserId(tasks[t].payload)
            /\ ids[2] # BotUserId(tasks[t].payload)
            /\ tasks[t].outcome = "ok"
            /\ OwnReplyPosted(t)

(* C19: in SlackThreadToDiscoursePost.run the post is published only after  *)
(* the fetch of the thread's replies has succeeded: when the fetch answers *)
(* with a status that is no success, or with no response, the call fails   *)
(* and publishes nothing, then or later; a call that publishes does so     *)
(* once, with the post made from the texts it fetched; and no step of the  *)
(* tool changes the session store.                                         *)
ToolCalls == 1..Len(archive)

C19_PublishAfterFetch ==
    [][/\ \A a \in 1..Len(archive') :
            /\ archive'[a].published # <<>>
                  => /\ archive'[a].status \in 200..299
                     /\ archive'[a].published = <<archive'[a].post>>
                     /\ archive'[a].outcome \in {"pending", "ok", "publish_error"}
            /\ (archive'[a].pc # "fetching" /\ archive'[a].status \notin 200..299)
                  => /\ archive'[a].pc = "done"
                     /\ archive'[a].outcome \in {"http_error", "fetch_error"}
                     /\ archive'[a].published = <<>>
            /\ (a \in ToolCalls /\ archive[a].pc = "done") => archive'[a] = archive[a]
       /\ archive' # archive => UNCHANGED <<cache, lastPut, tasks>>]_vars

\* the fetch was answered with an error status while the store held a
\* history: the call has failed and nothing was published
C19_Witness ==
    \E a \in ToolCalls :
        /\ archive[a].status = 500
        /\ archive[a].outcome = "http_error"
        /\ archive[a].published = <<>>
        /\ cache # <<>>

\* a call whose fetch succeeded has published the post made from the texts
C19_PublishedWitness ==
    \E a \in ToolCalls :
        /\ archive[a].outcome = "ok"
        /\ archive[a].published = <<[texts |-> <<"a", "">>]>>

====
